---- MODULE Spec2Model ----
(***************************************************************************)
(* Model of the Saladin Pharma service worker (src/sw.js): the fetch       *)
(* listener, the three serving strategies, limitCacheSize, the install and *)
(* activate handlers and the client messages, over a Cache Storage whose   *)
(* operations are asynchronous and settle one at a time.                   *)
(*                                                                         *)
(* Strings that the code inspects with includes()/startsWith() are kept as *)
(* sequences of tokens, so that a substring test is a test for a           *)
(* contiguous subsequence of tokens.                                       *)
(***************************************************************************)
EXTENDS Integers, Sequences, FiniteSets, TLC

\* ---------------------------------------------------------------- bounds

\* Number of respondWith() promises that may be pending at the same time.
NumSlots == 2
\* Fetch events dispatched to the worker in one run of Spec.
MaxFetchEvents == 2
\* Fetch events and client messages in one run of SpecMsg and SpecFaulty.
MsgFetchEvents == 1
MaxMessages == 1
\* Cache Storage operations that may fail in one run of SpecFaulty.
MaxFaults == 1
\* Distinct bodies the network may serve for one URL.
MaxBody == 2
\* Pages the worker controls, and sync events in one run of SpecSync.
NumClients == 2
MaxSyncs == 2
\* Calls of the clients API that may fail in one run of SpecSync.
MaxSyncFaults == 2
\* Entries the dynamic and the CDN cache may keep (50 and 30 in sw.js),
\* scaled down so that a cache fills within the requests of one run.
DynamicLimit == 1
CdnLimit == 1

\* ------------------------------------------------------- sw.js constants

\* A cache name, split where startsWith('saladin-pharma-') looks.
CACHE_VERSION == <<"saladin-pharma-", "v3.0.0">>
CACHE_STATIC == CACHE_VERSION \o <<"-static">>
CACHE_DYNAMIC == CACHE_VERSION \o <<"-dynamic">>
CACHE_CDN == CACHE_VERSION \o <<"-cdn">>

STATIC_ASSETS == <<"/", "/index.html", "/manifest.json">>

CDN_RESOURCES ==
  <<"https://cdn.tailwindcss.com",
    "https://unpkg.com/dexie@3.2.4/dist/dexie.min.js",
    "https://cdn.jsdelivr.net/npm/chart.js",
    "https://cdnjs.cloudflare.com/ajax/libs/jspdf/2.5.1/jspdf.umd.min.js",
    "https://fonts.googleapis.com/css2?family=Inter:wght@300;400;500;600;700;800;900&display=swap">>

FIREBASE_HOSTS ==
  <<"firebaseapp.com", "googleapis.com", "gstatic.com", "firebaseio.com",
    "firestore.googleapis.com">>

\* 50 and 30 in sw.js; scaled to DynamicLimit and CdnLimit here.
MAX_DYNAMIC_CACHE_SIZE == DynamicLimit
MAX_CDN_CACHE_SIZE == CdnLimit

\* ------------------------------------------------------------ strings

\* The strings the code inspects, cut into tokens such that every needle of
\* an includes()/startsWith() call is a sequence of whole tokens.
Tokens(str) ==
  CASE str = "https:" -> <<"http", "s", ":">>
    [] str = "chrome-extension:" -> <<"chrome-extension", ":">>
    [] str = "http" -> <<"http">>
    [] str = "cdn" -> <<"cdn">>
    [] str = "unpkg" -> <<"unpkg">>
    [] str = "jsdelivr" -> <<"jsdelivr">>
    [] str = "text/html" -> <<"text/html">>
    [] str = "text/html,application/xhtml+xml" ->
         <<"text/html", ",", "application/xhtml+xml">>
    [] str = "*/*" -> <<"*/*">>
    [] str = "firebaseapp.com" -> <<"firebaseapp", ".", "com">>
    [] str = "googleapis.com" -> <<"googleapis", ".", "com">>
    [] str = "gstatic.com" -> <<"gstatic", ".", "com">>
    [] str = "firebaseio.com" -> <<"firebaseio", ".", "com">>
    [] str = "firestore.googleapis.com" ->
         <<"firestore", ".", "googleapis", ".", "com">>
    [] str = "abdulqadirahmed.github.io" ->
         <<"abdulqadirahmed", ".", "github", ".", "io">>
    [] str = "cdn.jsdelivr.net" -> <<"cdn", ".", "jsdelivr", ".", "net">>
    [] str = "unpkg.com" -> <<"unpkg", ".", "com">>
    [] str = "cdn.tailwindcss.com" -> <<"cdn", ".", "tailwindcss", ".", "com">>
    [] str = "abcdefgh" -> <<"abcdefgh">>
    [] str = "https://cdn.tailwindcss.com" ->
         <<"http", "s", ":", "//", "cdn", ".", "tailwindcss", ".", "com">>
    [] str = "https://cdn.tailwindcss.com/" ->
         <<"http", "s", ":", "//", "cdn", ".", "tailwindcss", ".", "com", "/">>
    [] str = "https://unpkg.com/dexie@3.2.4/dist/dexie.min.js" ->
         <<"http", "s", ":", "//", "unpkg", ".", "com",
           "/dexie@3.2.4/dist/dexie.min.js">>
    [] str = "https://cdn.jsdelivr.net/npm/chart.js" ->
         <<"http", "s", ":", "//", "cdn", ".", "jsdelivr", ".", "net",
           "/npm/chart.js">>
    [] str = "https://cdnjs.cloudflare.com/ajax/libs/jspdf/2.5.1/jspdf.umd.min.js" ->
         <<"http", "s", ":", "//", "cdn", "js", ".", "cloudflare", ".", "com",
           "/ajax/libs/jspdf/2.5.1/jspdf.umd.min.js">>
    [] str = "https://fonts.googleapis.com/css2?family=Inter:wght@300;400;500;600;700;800;900&display=swap" ->
         <<"http", "s", ":", "//", "fonts", ".", "googleapis", ".", "com",
           "/css2", "?family=Inter:wght@300;400;500;600;700;800;900&display=swap">>
    [] str = "https://abdulqadirahmed.github.io/" ->
         <<"http", "s", ":", "//", "abdulqadirahmed", ".", "github", ".", "io", "/">>
    [] str = "https://abdulqadirahmed.github.io/index.html" ->
         <<"http", "s", ":", "//", "abdulqadirahmed", ".", "github", ".", "io",
           "/index.html">>
    [] str = "https://abdulqadirahmed.github.io/manifest.json" ->
         <<"http", "s", ":", "//", "abdulqadirahmed", ".", "github", ".", "io",
           "/manifest.json">>
    [] str = "https://abdulqadirahmed.github.io/api/a" ->
         <<"http", "s", ":", "//", "abdulqadirahmed", ".", "github", ".", "io",
           "/api/a">>
    [] str = "https://abdulqadirahmed.github.io/api/b" ->
         <<"http", "s", ":", "//", "abdulqadirahmed", ".", "github", ".", "io",
           "/api/b">>
    [] str = "https://abdulqadirahmed.github.io/page" ->
         <<"http", "s", ":", "//", "abdulqadirahmed", ".", "github", ".", "io",
           "/page">>
    [] str = "https://firestore.googleapis.com/v1/documents" ->
         <<"http", "s", ":", "//", "firestore", ".", "googleapis", ".", "com",
           "/v1/documents">>
    [] str = "chrome-extension://abcdefgh/content.js" ->
         <<"chrome-extension", ":", "//", "abcdefgh", "/content.js">>

\* Contiguous-subsequence test on token sequences.
SubSeqOf(hay, needle) ==
  \E i \in 0..(Len(hay) - Len(needle)) :
    \A j \in 1..Len(needle) : hay[i + j] = needle[j]

\* String.prototype.includes.
Includes(str, needle) == SubSeqOf(Tokens(str), Tokens(needle))

\* String.prototype.startsWith.
StartsWith(str, prefix) ==
  /\ Len(Tokens(str)) >= Len(Tokens(prefix))
  /\ \A j \in 1..Len(Tokens(prefix)) : Tokens(str)[j] = Tokens(prefix)[j]

Range(seq) == { seq[i] : i \in 1..Len(seq) }

\* Array.prototype.some.
Some(arr, P(_)) == \E i \in 1..Len(arr) : P(arr[i])

\* ------------------------------------------------------------ requests

MkUrl(protocol, hostname, pathname) ==
  [protocol |-> protocol, hostname |-> hostname, pathname |-> pathname]

\* new URL(request.url) for the URLs of the model.
ParseUrl(href) ==
  CASE href = "https://abdulqadirahmed.github.io/" ->
         MkUrl("https:", "abdulqadirahmed.github.io", "/")
    [] href = "https://abdulqadirahmed.github.io/index.html" ->
         MkUrl("https:", "abdulqadirahmed.github.io", "/index.html")
    [] href = "https://abdulqadirahmed.github.io/manifest.json" ->
         MkUrl("https:", "abdulqadirahmed.github.io", "/manifest.json")
    [] href = "https://abdulqadirahmed.github.io/api/a" ->
         MkUrl("https:", "abdulqadirahmed.github.io", "/api/a")
    [] href = "https://abdulqadirahmed.github.io/api/b" ->
         MkUrl("https:", "abdulqadirahmed.github.io", "/api/b")
    [] href = "https://abdulqadirahmed.github.io/page" ->
         MkUrl("https:", "abdulqadirahmed.github.io", "/page")
    [] href = "https://cdn.jsdelivr.net/npm/chart.js" ->
         MkUrl("https:", "cdn.jsdelivr.net", "/npm/chart.js")
    [] href = "https://unpkg.com/dexie@3.2.4/dist/dexie.min.js" ->
         MkUrl("https:", "unpkg.com", "/dexie@3.2.4/dist/dexie.min.js")
    [] href = "https://cdn.tailwindcss.com/" ->
         MkUrl("https:", "cdn.tailwindcss.com", "/")
    [] href = "https://firestore.googleapis.com/v1/documents" ->
         MkUrl("https:", "firestore.googleapis.com", "/v1/documents")
    [] href = "chrome-extension://abcdefgh/content.js" ->
         MkUrl("chrome-extension:", "abcdefgh", "/content.js")

UrlRoot == "https://abdulqadirahmed.github.io/"
UrlIndex == "https://abdulqadirahmed.github.io/index.html"
UrlManifest == "https://abdulqadirahmed.github.io/manifest.json"
UrlApiA == "https://abdulqadirahmed.github.io/api/a"
UrlPage == "https://abdulqadirahmed.github.io/page"
UrlChart == "https://cdn.jsdelivr.net/npm/chart.js"
UrlDexie == "https://unpkg.com/dexie@3.2.4/dist/dexie.min.js"
UrlTailwind == "https://cdn.tailwindcss.com/"
UrlFirestore == "https://firestore.googleapis.com/v1/documents"
UrlExtension == "chrome-extension://abcdefgh/content.js"
UrlDocs == "https://abdulqadirahmed.github.io/docs/"

\* A URL given relative to the worker's origin, as in cache.addAll(['/']).
Absolute(path) ==
  CASE path = "/" -> UrlRoot
    [] path = "/index.html" -> UrlIndex
    [] path = "/manifest.json" -> UrlManifest

MkRequest(method, url, accept) ==
  [method |-> method, url |-> url, accept |-> accept]

\* The requests the pages make in the model.
Requests ==
  { MkRequest("GET", UrlRoot, "text/html,application/xhtml+xml"),
    MkRequest("GET", UrlApiA, "*/*"),
    MkRequest("GET", UrlPage, "text/html,application/xhtml+xml"),
    MkRequest("GET", UrlChart, "*/*"),
    MkRequest("GET", UrlDexie, "*/*"),
    MkRequest("GET", UrlTailwind, "*/*"),
    MkRequest("GET", UrlFirestore, "*/*"),
    MkRequest("POST", UrlApiA, "*/*"),
    MkRequest("GET", UrlExtension, "*/*") }

NoRequest == MkRequest("", "", "")

\* The fetch listener without its FIREBASE_HOSTS test.
InterceptedWithoutHostTest(request) ==
  LET url == ParseUrl(request.url) IN
  /\ request.method = "GET"
  /\ StartsWith(url.protocol, "http")

\* The fetch listener's three early returns (sw.js 97-110).
Intercepted(request) ==
  LET url == ParseUrl(request.url) IN
  /\ request.method = "GET"
  /\ ~Some(FIREBASE_HOSTS, LAMBDA host : Includes(url.hostname, host))
  /\ StartsWith(url.protocol, "http")

\* handleFetchRequest's choice of strategy and cache (sw.js 120-141).
Strategy(request) ==
  LET url == ParseUrl(request.url) IN
  IF Some(STATIC_ASSETS, LAMBDA asset : url.pathname = asset)
    THEN [fn |-> "cacheFirst", cacheName |-> CACHE_STATIC]
  ELSE IF \/ Some(CDN_RESOURCES, LAMBDA cdn : Includes(request.url, cdn))
          \/ Includes(url.hostname, "cdn")
          \/ Includes(url.hostname, "unpkg")
          \/ Includes(url.hostname, "jsdelivr")
    THEN [fn |-> "staleWhileRevalidate", cacheName |-> CACHE_CDN]
  ELSE IF Includes(request.accept, "text/html")
    THEN [fn |-> "networkFirst", cacheName |-> CACHE_DYNAMIC]
  ELSE [fn |-> "networkFirst", cacheName |-> CACHE_DYNAMIC]

\* ------------------------------------------------------------ responses

MkResponse(ok, status, body, url) ==
  [ok |-> ok, status |-> status, body |-> body, url |-> url]

\* What the network can answer to a request for url: an ok response with
\* one of MaxBody bodies, or a response with an HTTP error status.
OkResponses(url) ==
  { MkResponse(TRUE, 200, <<"body", v>>, url) : v \in 1..MaxBody }
ErrorResponse(url) == MkResponse(FALSE, 500, <<"error", 0>>, url)

\* new Response('Offline - ...', {status: 503}) of cacheFirst and networkFirst.
Unavailable(text) == MkResponse(FALSE, 503, <<text, 0>>, "")

\* JavaScript's null and undefined, where a response is expected.
Null == MkResponse(FALSE, 0, <<"null", 0>>, "")

IsResponse(v) == v.status # 0

\* How a promise settled: fulfilled with a value, or rejected.
Fulfilled(v) == [state |-> "fulfilled", value |-> v]
Rejected == [state |-> "rejected", value |-> Null]
Pending == [state |-> "pending", value |-> Null]

\* ------------------------------------------------------ Cache Storage

\* CacheStorage is a list of caches in creation order.  A cache holds its
\* entries in insertion order.  caches.delete() unlists a cache; a Cache
\* object obtained before that keeps working on the unlisted cache.
MkCache(name, id, entries) ==
  [name |-> name, id |-> id, listed |-> TRUE, entries |-> entries]

MkEntry(key, resp) == [key |-> key, resp |-> resp]

SelectIdx(seq, P(_)) == { i \in 1..Len(seq) : P(seq[i]) }

Listed(st, name) == SelectIdx(st, LAMBDA c : c.listed /\ c.name = name)

\* caches.has(name).
Has(st, name) == Listed(st, name) # {}

\* caches.keys(): the names of the listed caches, in creation order.
CacheNames(st) ==
  LET listed == SelectSeq(st, LAMBDA c : c.listed)
  IN [i \in 1..Len(listed) |-> listed[i].name]

\* caches.open(name): the listed cache of that name, created when missing.
Open(st, name, id) ==
  IF Has(st, name) THEN st ELSE Append(st, MkCache(name, id, <<>>))

\* The Cache object caches.open(name) resolves to, as the cache's id.
Handle(st, name) == st[CHOOSE i \in Listed(st, name) : TRUE].id

\* The entries behind a Cache object.
Entries(st, h) ==
  LET idx == SelectIdx(st, LAMBDA c : c.id = h)
  IN IF idx = {} THEN <<>> ELSE st[CHOOSE i \in idx : TRUE].entries

\* cache.keys(): the request URLs, oldest first.
Keys(entries) == [i \in 1..Len(entries) |-> entries[i].key]

\* cache.match(url) on a list of entries: the first entry of that URL.
MatchEntries(entries, url) ==
  LET idx == SelectIdx(entries, LAMBDA e : e.key = url)
  IN IF idx = {} THEN Null
     ELSE entries[CHOOSE i \in idx : \A j \in idx : i <= j].resp

\* cache.match(url) through a Cache object.
Match(st, h, url) == MatchEntries(Entries(st, h), url)

\* caches.match(url): the first match over the listed caches in creation order.
MatchAny(st, url) ==
  LET idx == SelectIdx(st, LAMBDA c : c.listed /\ MatchEntries(c.entries, url) # Null)
  IN IF idx = {} THEN Null
     ELSE MatchEntries(st[CHOOSE i \in idx : \A j \in idx : i <= j].entries, url)

\* The put of the Cache API: the entry of the same URL is removed and the
\* new entry is appended.
PutEntries(entries, url, resp) ==
  Append(SelectSeq(entries, LAMBDA e : e.key # url), MkEntry(url, resp))

PutAllEntries(entries, urls, resps) ==
  LET RECURSIVE Go(_, _)
      Go(es, i) == IF i > Len(urls) THEN es
                   ELSE Go(PutEntries(es, urls[i], resps[i]), i + 1)
  IN Go(entries, 1)

\* cache.put(url, resp) through a Cache object.
Put(st, h, url, resp) ==
  [i \in 1..Len(st) |->
     IF st[i].id = h
       THEN [st[i] EXCEPT !.entries = PutEntries(st[i].entries, url, resp)]
       ELSE st[i]]

\* cache.delete(url) through a Cache object.
DeleteEntry(st, h, url) ==
  [i \in 1..Len(st) |->
     IF st[i].id = h
       THEN [st[i] EXCEPT !.entries = SelectSeq(st[i].entries, LAMBDA e : e.key # url)]
       ELSE st[i]]

\* caches.delete(name): the cache is unlisted; it stays reachable through
\* the Cache objects in `held`, and is dropped when there is none.
DeleteCache(st, name, held) ==
  LET unlisted == [i \in 1..Len(st) |->
                     IF st[i].name = name THEN [st[i] EXCEPT !.listed = FALSE]
                     ELSE st[i]]
  IN SelectSeq(unlisted, LAMBDA c : c.listed \/ c.id \in held)

\* --------------------------------------------------------------- state

VARIABLES
  store,       \* the origin's CacheStorage
  nextId,      \* the id of the next cache created
  life,        \* the worker's lifecycle and its install / activate handler
  oldClients,  \* pages still controlled by the previous version
  tasks,       \* the pending respondWith() promises, by slot
  bg,          \* promises nobody awaits: puts, limitCacheSize passes, fetches
  msg,         \* the message handler's waitUntil() promise
  budget,      \* events, messages and store failures still to come
  lastEvent,   \* the request the fetch listener left to the browser, if any
  served,      \* the last ok response networkFirst returned live
  writes,      \* the puts that settled, oldest first: the cache and the URL
  sync         \* the sync handler's waitUntil() promise and the pages' inboxes

vars ==
  <<store, nextId, life, oldClients, tasks, bg, msg, budget, lastEvent, served, writes, sync>>

Slots == 1..NumSlots

\* The names a previous version of the worker left behind, and a cache of
\* another application of the same origin.
OLD_STATIC == <<"saladin-pharma-", "v2.0.0", "-static">>
OLD_DYNAMIC == <<"saladin-pharma-", "v2.0.0", "-dynamic">>
FOREIGN_CACHE == <<"docs-", "v1", "-pages">>

OldBody(url) == MkResponse(TRUE, 200, <<"old", 0>>, url)

\* CacheStorage before the worker is installed: empty on a first install,
\* the previous version's caches on an upgrade.
InitialStores ==
  { <<>>,
    << MkCache(OLD_STATIC, 1, <<MkEntry(UrlRoot, OldBody(UrlRoot))>>),
       MkCache(FOREIGN_CACHE, 2, <<MkEntry(UrlDocs, OldBody(UrlDocs))>>),
       MkCache(OLD_DYNAMIC, 3, <<MkEntry(UrlApiA, OldBody(UrlApiA))>>) >> }

\* A respondWith() promise: where its async function stands (pc), its
\* request, cache name and Cache object (h), the response fetch resolved to
\* (net) and how the promise settled (result).  Kept for the properties:
\* what the cache lookup found (seen), the number of fetch calls (fetches)
\* the value of `served` for the same URL when the event arrived (prior),
\* and, when the event arrived after clearAllCaches had deleted every cache
\* and found no other request being handled, the events and messages that
\* were still to come then (cleared).
NotCleared == [events |-> -1, messages |-> -1]

IdleTask ==
  [pc |-> "idle", req |-> NoRequest, cacheName |-> <<>>, h |-> 0,
   seen |-> Null, fetches |-> 0, net |-> Null, prior |-> Null,
   cleared |-> NotCleared, result |-> Pending]

IdleMsg == [pc |-> "idle", type |-> "", urls |-> <<>>, h |-> 0, pend |-> {}]

\* The waitUntil() promise of a message settled; the type of the message
\* is kept for the properties.
Handled(m) == [IdleMsg EXCEPT !.type = m.type]

\* The last message was CLEAR_CACHE and clearAllCaches has returned.
Cleared(m) == m.pc = "idle" /\ m.type = "CLEAR_CACHE"

MkOp(op, pc, name, h, max, key, resp, pend) ==
  [op |-> op, pc |-> pc, name |-> name, h |-> h, max |-> max, key |-> key,
   resp |-> resp, pend |-> pend]

\* Pages controlled by the worker, as self.clients.matchAll() lists them.
Clients == 1..NumClients

SYNC_TAG == "pharmacy-data-sync"

\* The tags the browser fires sync events with.
SyncTags == {SYNC_TAG, "some-other-tag"}

\* The sync handler: where syncPharmacyData stands (pc), the tags of the
\* sync events so far (tags), the events still to come (left), how the
\* last waitUntil() promise settled, and the messages each page received:
\* the sync event that caused it and its payload.success.
IdleSync(syncs) ==
  [pc |-> "idle", tags |-> <<>>, left |-> syncs, settled |-> "pending",
   inbox |-> [c \in Clients |-> <<>>]]

InitAll(events, messages, faults, syncs) ==
  /\ sync = IdleSync(syncs)
  /\ store \in InitialStores
  /\ nextId = Len(store) + 1
  /\ life = [phase |-> "parsed", pc |-> "", h |-> 0, pend |-> {},
             skipWaiting |-> FALSE, prepop |-> FALSE, settled |-> "pending",
             claimed |-> FALSE, failed |-> {}]
  /\ oldClients = (store # <<>>)
  /\ tasks = [t \in Slots |-> IdleTask]
  /\ bg = {}
  /\ msg = IdleMsg
  /\ budget = [events |-> events, messages |-> messages, faults |-> faults]
  /\ lastEvent = NoRequest
  /\ served = Null
  /\ writes = <<>>

InitWith(events, messages, faults) == InitAll(events, messages, faults, 0)

\* The Cache objects some promise still holds.
Held(ts, ops, m, l) ==
  { ts[t].h : t \in Slots } \cup { o.h : o \in ops } \cup {m.h} \cup {l.h}

\* The browser consumes a settled respondWith() promise, and performs a
\* request left to it, before the worker runs again.
Ready == lastEvent = NoRequest /\ \A t \in Slots : tasks[t].pc # "done"

\* A Cache Storage operation may reject while failures remain in the budget.
MayFail == budget.faults > 0
Fail == budget' = [budget EXCEPT !.faults = @ - 1]

\* ------------------------------------------------------------- install

\* The install event (sw.js 42-46): caches.open(CACHE_STATIC) is called.
InstallEvent ==
  /\ Ready
  /\ life.phase = "parsed"
  /\ life' = [life EXCEPT !.phase = "installing", !.pc = "open"]
  /\ UNCHANGED <<store, nextId, oldClients, tasks, bg, msg, budget, lastEvent, served, writes, sync>>

\* caches.open resolves (sw.js 46-47): cache.addAll(STATIC_ASSETS) is called.
InstallOpened ==
  /\ Ready
  /\ life.phase = "installing" /\ life.pc = "open"
  /\ store' = Open(store, CACHE_STATIC, nextId)
  /\ nextId' = IF Has(store, CACHE_STATIC) THEN nextId ELSE nextId + 1
  /\ life' = [life EXCEPT !.pc = "addAll", !.h = Handle(store', CACHE_STATIC)]
  /\ UNCHANGED <<oldClients, tasks, bg, msg, budget, lastEvent, served, writes, sync>>

\* The .catch of the install chain (sw.js 55-57): the error is logged and
\* the promise given to waitUntil is fulfilled.
InstallCaught == [life EXCEPT !.phase = "installed", !.pc = "", !.h = 0]

\* The second .then of the install chain (sw.js 51-54): skipWaiting().
InstallCached ==
  [life EXCEPT !.phase = "installed", !.pc = "", !.h = 0,
               !.prepop = TRUE, !.skipWaiting = TRUE]

\* caches.open rejects (sw.js 55-57).
InstallOpenFailed ==
  /\ Ready
  /\ life.phase = "installing" /\ life.pc = "open"
  /\ MayFail /\ Fail
  /\ life' = InstallCaught
  /\ UNCHANGED <<store, nextId, oldClients, tasks, bg, msg, lastEvent, served, writes, sync>>

\* cache.addAll fetched every asset with an ok status and stored them all
\* (sw.js 49-54).
InstallAddAllDone ==
  /\ Ready
  /\ life.phase = "installing" /\ life.pc = "addAll"
  /\ \E v \in 1..MaxBody :
       LET urls == [i \in 1..Len(STATIC_ASSETS) |-> Absolute(STATIC_ASSETS[i])]
           resps == [i \in 1..Len(urls) |-> MkResponse(TRUE, 200, <<"body", v>>, urls[i])]
       IN store' = [i \in 1..Len(store) |->
                      IF store[i].id = life.h
                        THEN [store[i] EXCEPT !.entries = PutAllEntries(@, urls, resps)]
                        ELSE store[i]]
  /\ life' = InstallCached
  /\ UNCHANGED <<nextId, oldClients, tasks, bg, msg, budget, lastEvent, served, writes, sync>>

\* cache.addAll rejects: a fetch failed or answered with an error status, and
\* nothing is stored (sw.js 49, 55-57).
InstallAddAllFailed ==
  /\ Ready
  /\ life.phase = "installing" /\ life.pc = "addAll"
  /\ life' = InstallCaught
  /\ UNCHANGED <<store, nextId, oldClients, tasks, bg, msg, budget, lastEvent, served, writes, sync>>

\* The pages of the previous version are closed.
OldClientsClose ==
  /\ Ready
  /\ oldClients
  /\ life.phase = "installed"
  /\ oldClients' = FALSE
  /\ UNCHANGED <<store, nextId, life, tasks, bg, msg, budget, lastEvent, served, writes, sync>>

\* ------------------------------------------------------------ activate

\* The filter of the activate handler, deleting old static caches only.
IsOldCacheStaticOnly(cacheName) ==
  /\ cacheName[1] = "saladin-pharma-"
  /\ cacheName[3] = "-static"
  /\ cacheName # CACHE_STATIC

\* The filter of the activate handler (sw.js 73-76).
IsOldCache(cacheName) ==
  /\ cacheName[1] = "saladin-pharma-"
  /\ cacheName # CACHE_STATIC
  /\ cacheName # CACHE_DYNAMIC
  /\ cacheName # CACHE_CDN

\* The activate event (sw.js 64-68): the host activates an installed worker
\* once it called skipWaiting() or no page of the previous version is left.
ActivateEvent ==
  /\ Ready
  /\ life.phase = "installed"
  /\ life.skipWaiting \/ ~oldClients
  /\ life' = [life EXCEPT !.phase = "activating", !.pc = "keys"]
  /\ oldClients' = FALSE
  /\ UNCHANGED <<store, nextId, tasks, bg, msg, budget, lastEvent, served, writes, sync>>

\* The last .then of the activate chain (sw.js 83-86): clients.claim().
ActivateClaimed(l) ==
  [l EXCEPT !.phase = "activated", !.pc = "", !.settled = "fulfilled", !.claimed = TRUE]

\* The chain rejects: no handler catches it, clients.claim() is not called;
\* the host activates the worker all the same.
ActivateRejected(l) ==
  [l EXCEPT !.phase = "activated", !.pc = "", !.settled = "rejected"]

\* caches.keys() resolves (sw.js 68-81): a caches.delete is started for each
\* old cache.
ActivateKeys ==
  /\ Ready
  /\ life.phase = "activating" /\ life.pc = "keys"
  /\ LET old == { n \in Range(CacheNames(store)) : IsOldCache(n) }
     IN life' = IF old = {} THEN ActivateClaimed(life)
                ELSE [life EXCEPT !.pc = "delete", !.pend = old]
  /\ UNCHANGED <<store, nextId, oldClients, tasks, bg, msg, budget, lastEvent, served, writes, sync>>

\* caches.keys() rejects.
ActivateKeysFailed ==
  /\ Ready
  /\ life.phase = "activating" /\ life.pc = "keys"
  /\ MayFail /\ Fail
  /\ life' = ActivateRejected(life)
  /\ UNCHANGED <<store, nextId, oldClients, tasks, bg, msg, lastEvent, served, writes, sync>>

\* One caches.delete of the activate handler resolves; Promise.all resolves
\* with the last one unless it rejected before (sw.js 70-86).
ActivateDeleted ==
  /\ Ready
  /\ \E n \in life.pend :
       /\ store' = DeleteCache(store, n, Held(tasks, bg, msg, life))
       /\ life' = IF life.pend = {n} /\ life.phase = "activating"
                    THEN ActivateClaimed([life EXCEPT !.pend = {}])
                    ELSE [life EXCEPT !.pend = @ \ {n}]
  /\ UNCHANGED <<nextId, oldClients, tasks, bg, msg, budget, lastEvent, served, writes, sync>>

\* One caches.delete of the activate handler rejects: Promise.all rejects at
\* once, the other deletes go on.  The names whose delete rejected are kept
\* for the properties (failed).
ActivateDeleteFailed ==
  /\ Ready
  /\ MayFail /\ Fail
  /\ \E n \in life.pend :
       life' = IF life.phase = "activating"
                 THEN ActivateRejected([life EXCEPT !.pend = @ \ {n}, !.failed = @ \cup {n}])
                 ELSE [life EXCEPT !.pend = @ \ {n}, !.failed = @ \cup {n}]
  /\ UNCHANGED <<store, nextId, oldClients, tasks, bg, msg, lastEvent, served, writes, sync>>

Lifecycle ==
  \/ InstallEvent \/ InstallOpened
  \/ InstallAddAllDone \/ InstallAddAllFailed
  \/ OldClientsClose
  \/ ActivateEvent \/ ActivateKeys \/ ActivateDeleted

LifecycleFaults == InstallOpenFailed \/ ActivateKeysFailed \/ ActivateDeleteFailed

\* ----------------------------------------------------- the fetch event

\* cache.put(request, response.clone()), called and not awaited.
PutOp(h, url, resp) == MkOp("put", "put", <<>>, h, 0, url, resp, {})

\* limitCacheSize(cacheName, maxSize), called and not awaited: it runs up to
\* its first await, caches.open (sw.js 336-338).
LimitOp(cacheName, maxSize) == MkOp("limit", "open", cacheName, 0, maxSize, "", Null, {})

\* The eviction pass called right after the put `put`; the put's URL and
\* response are kept with it for the properties.
LimitAfter(put, cacheName, maxSize) ==
  [LimitOp(cacheName, maxSize) EXCEPT !.key = put.key, !.resp = put.resp]

\* The fetch of staleWhileRevalidate whose promise the caller dropped.
RevalidateOp(cacheName, h, url) == MkOp("revalidate", "fetch", cacheName, h, 0, url, Null, {})

\* The function handleFetchRequest runs until its first await: caches.open
\* in cacheFirst and staleWhileRevalidate, fetch in networkFirst.
Started(request) ==
  LET s == Strategy(request) IN
  [IdleTask EXCEPT
     !.req = request,
     !.cacheName = s.cacheName,
     !.pc = CASE s.fn = "cacheFirst" -> "cf_open"
              [] s.fn = "staleWhileRevalidate" -> "swr_open"
              [] s.fn = "networkFirst" -> "nf_fetch",
     !.fetches = IF s.fn = "networkFirst" THEN 1 ELSE 0,
     !.prior = IF s.fn = "networkFirst" /\ served.url = request.url
                 THEN served ELSE Null,
     !.cleared = IF /\ Cleared(msg)
                    /\ CacheNames(store) = <<>>
                    /\ \A t \in Slots : tasks[t].pc = "idle"
                   THEN [events |-> budget.events - 1, messages |-> budget.messages]
                   ELSE NotCleared]

Done(task, settled) == [task EXCEPT !.pc = "done", !.h = 0, !.result = settled]

\* The fetch listener (sw.js 93-115).  A request it returns from without
\* respondWith() is left to the browser.
FetchEvent ==
  /\ Ready
  /\ life.phase = "activated"
  /\ budget.events > 0
  /\ \E request \in Requests :
       IF Intercepted(request)
         THEN /\ \E t \in Slots : tasks[t].pc = "idle"
              /\ LET t == CHOOSE t \in Slots :
                            /\ tasks[t].pc = "idle"
                            /\ \A u \in Slots : tasks[u].pc = "idle" => t <= u
                 IN tasks' = [tasks EXCEPT ![t] = Started(request)]
              /\ lastEvent' = NoRequest
         ELSE /\ tasks' = tasks
              /\ lastEvent' = request
  /\ budget' = [budget EXCEPT !.events = @ - 1]
  /\ UNCHANGED <<store, nextId, life, oldClients, bg, msg, served, writes, sync>>

\* The page receives the response of a settled respondWith().
Deliver(t) ==
  /\ tasks[t].pc = "done"
  /\ tasks' = [tasks EXCEPT ![t] = IdleTask]
  /\ UNCHANGED <<store, nextId, life, oldClients, bg, msg, budget, lastEvent, served, writes, sync>>

\* The browser performs a request the fetch listener did not answer.
PassThrough ==
  /\ lastEvent # NoRequest
  /\ lastEvent' = NoRequest
  /\ UNCHANGED <<store, nextId, life, oldClients, tasks, bg, msg, budget, served, writes, sync>>


\* What fetch(request) resolves to: an ok response or an error status.
Answers(url) == OkResponses(url) \cup {ErrorResponse(url)}

\* caches.open(name) resolves for task t, which goes on at pc.
TaskOpened(t, name, pc) ==
  /\ store' = Open(store, name, nextId)
  /\ nextId' = IF Has(store, name) THEN nextId ELSE nextId + 1
  /\ tasks' = [tasks EXCEPT ![t].pc = pc, ![t].h = Handle(store', name)]

\* --------------------------------------------------------- cacheFirst

CF_UNAVAILABLE == Unavailable("Offline - Resource not available")

\* The catch of cacheFirst (sw.js 162-168).
CfCaught(t) == tasks' = [tasks EXCEPT ![t] = Done(@, Fulfilled(CF_UNAVAILABLE))]

\* caches.open resolves (sw.js 146-147).
CfOpened(t) ==
  /\ Ready
  /\ tasks[t].pc = "cf_open"
  /\ TaskOpened(t, tasks[t].cacheName, "cf_match")
  /\ UNCHANGED <<life, oldClients, bg, msg, budget, lastEvent, served, writes, sync>>

CfOpenFailed(t) ==
  /\ Ready
  /\ tasks[t].pc = "cf_open"
  /\ MayFail /\ Fail
  /\ CfCaught(t)
  /\ UNCHANGED <<store, nextId, life, oldClients, bg, msg, lastEvent, served, writes, sync>>

\* cacheFirst fetching whether or not the cache had the response.
CfAfterMatchRefetch(task, cachedResponse) ==
  [task EXCEPT !.pc = "cf_fetch", !.fetches = @ + 1]

\* What cacheFirst does with the result of cache.match (sw.js 149-155).
CfAfterMatch(task, cachedResponse) ==
  IF cachedResponse # Null
    THEN Done(task, Fulfilled(cachedResponse))
    ELSE [task EXCEPT !.pc = "cf_fetch", !.fetches = @ + 1]

\* cache.match resolves (sw.js 147-155).
CfMatched(t) ==
  /\ Ready
  /\ tasks[t].pc = "cf_match"
  /\ LET cachedResponse == Match(store, tasks[t].h, tasks[t].req.url)
     IN tasks' = [tasks EXCEPT
                    ![t] = CfAfterMatch([@ EXCEPT !.seen = cachedResponse], cachedResponse)]
  /\ UNCHANGED <<store, nextId, life, oldClients, bg, msg, budget, lastEvent, served, writes, sync>>

CfMatchFailed(t) ==
  /\ Ready
  /\ tasks[t].pc = "cf_match"
  /\ MayFail /\ Fail
  /\ CfCaught(t)
  /\ UNCHANGED <<store, nextId, life, oldClients, bg, msg, lastEvent, served, writes, sync>>

\* cacheFirst storing a response without looking at its status.
CfStoresAnyStatus(task, networkResponse) ==
  {PutOp(task.h, task.req.url, networkResponse)}

\* cacheFirst storing nothing.
CfStoresNothing(task, networkResponse) == {}

\* The puts cacheFirst starts for a network response (sw.js 157-159).
CfStores(task, networkResponse) ==
  IF networkResponse.ok THEN {PutOp(task.h, task.req.url, networkResponse)} ELSE {}

\* fetch resolves (sw.js 155-161).
CfFetched(t) ==
  /\ Ready
  /\ tasks[t].pc = "cf_fetch"
  /\ \E networkResponse \in Answers(tasks[t].req.url) :
       /\ bg' = bg \cup CfStores(tasks[t], networkResponse)
       /\ tasks' = [tasks EXCEPT
                      ![t] = Done([@ EXCEPT !.net = networkResponse],
                                  Fulfilled(networkResponse))]
  /\ UNCHANGED <<store, nextId, life, oldClients, msg, budget, lastEvent, served, writes, sync>>

\* fetch rejects (sw.js 155, 162-168).
CfFetchFailed(t) ==
  /\ Ready
  /\ tasks[t].pc = "cf_fetch"
  /\ CfCaught(t)
  /\ UNCHANGED <<store, nextId, life, oldClients, bg, msg, budget, lastEvent, served, writes, sync>>

CacheFirst(t) == CfOpened(t) \/ CfMatched(t) \/ CfFetched(t) \/ CfFetchFailed(t)

CacheFirstFaults(t) == CfOpenFailed(t) \/ CfMatchFailed(t)

\* -------------------------------------------------------- networkFirst

NF_UNAVAILABLE == Unavailable("Offline - No cached version available")

\* The puts and eviction passes networkFirst starts once the cache is open
\* (sw.js 178-181).
NfStores(task, h) ==
  LET put == PutOp(h, task.req.url, task.net)
  IN { put, LimitAfter(put, task.cacheName, MAX_DYNAMIC_CACHE_SIZE) }

\* fetch resolves (sw.js 174-177, 184): an ok response has caches.open
\* called, any other response is returned as it is.
NfFetched(t) ==
  /\ Ready
  /\ tasks[t].pc = "nf_fetch"
  /\ \E networkResponse \in Answers(tasks[t].req.url) :
       tasks' = [tasks EXCEPT
                   ![t] = IF networkResponse.ok
                            THEN [@ EXCEPT !.pc = "nf_open", !.net = networkResponse]
                            ELSE Done([@ EXCEPT !.net = networkResponse],
                                      Fulfilled(networkResponse))]
  /\ UNCHANGED <<store, nextId, life, oldClients, bg, msg, budget, lastEvent, served, writes, sync>>

\* fetch rejects (sw.js 174, 185-188): caches.match is called.
NfFetchFailed(t) ==
  /\ Ready
  /\ tasks[t].pc = "nf_fetch"
  /\ tasks' = [tasks EXCEPT ![t].pc = "nf_match"]
  /\ UNCHANGED <<store, nextId, life, oldClients, bg, msg, budget, lastEvent, served, writes, sync>>

\* caches.open resolves (sw.js 177-184): the put and the eviction pass are
\* started and the network response is returned.
NfOpened(t) ==
  /\ Ready
  /\ tasks[t].pc = "nf_open"
  /\ store' = Open(store, tasks[t].cacheName, nextId)
  /\ nextId' = IF Has(store, tasks[t].cacheName) THEN nextId ELSE nextId + 1
  /\ bg' = bg \cup NfStores(tasks[t], Handle(store', tasks[t].cacheName))
  /\ tasks' = [tasks EXCEPT ![t] = Done(@, Fulfilled(tasks[t].net))]
  /\ served' = tasks[t].net
  /\ UNCHANGED <<life, oldClients, msg, budget, lastEvent, writes, sync>>

\* caches.open rejects inside the try (sw.js 177, 185-188).
NfOpenFailed(t) ==
  /\ Ready
  /\ tasks[t].pc = "nf_open"
  /\ MayFail /\ Fail
  /\ tasks' = [tasks EXCEPT ![t].pc = "nf_match"]
  /\ UNCHANGED <<store, nextId, life, oldClients, bg, msg, lastEvent, served, writes, sync>>

\* The catch of networkFirst trying the offline page before the cached
\* response.
NfAfterMatchFallbackFirst(task, cachedResponse) ==
  IF Includes(task.req.accept, "text/html")
    THEN [task EXCEPT !.pc = "nf_fbopen"]
  ELSE IF cachedResponse # Null
    THEN Done(task, Fulfilled(cachedResponse))
  ELSE Done(task, Fulfilled(NF_UNAVAILABLE))

\* What the catch of networkFirst does with the result of caches.match
\* (sw.js 190-204).
NfAfterMatch(task, cachedResponse) ==
  IF cachedResponse # Null
    THEN Done(task, Fulfilled(cachedResponse))
  ELSE IF Includes(task.req.accept, "text/html")
    THEN [task EXCEPT !.pc = "nf_fbopen"]
  ELSE Done(task, Fulfilled(NF_UNAVAILABLE))

\* caches.match resolves (sw.js 188-204).
NfMatched(t) ==
  /\ Ready
  /\ tasks[t].pc = "nf_match"
  /\ LET cachedResponse == MatchAny(store, tasks[t].req.url)
     IN tasks' = [tasks EXCEPT
                    ![t] = NfAfterMatch([@ EXCEPT !.seen = cachedResponse], cachedResponse)]
  /\ UNCHANGED <<store, nextId, life, oldClients, bg, msg, budget, lastEvent, served, writes, sync>>

\* A Cache Storage call of the catch block rejects: nothing catches it.
NfCatchFailed(t) ==
  /\ Ready
  /\ tasks[t].pc \in {"nf_match", "nf_fbopen", "nf_fbmatch"}
  /\ MayFail /\ Fail
  /\ tasks' = [tasks EXCEPT ![t] = Done(@, Rejected)]
  /\ UNCHANGED <<store, nextId, life, oldClients, bg, msg, lastEvent, served, writes, sync>>

\* caches.open(CACHE_STATIC) resolves (sw.js 196-197).
NfFallbackOpened(t) ==
  /\ Ready
  /\ tasks[t].pc = "nf_fbopen"
  /\ TaskOpened(t, CACHE_STATIC, "nf_fbmatch")
  /\ UNCHANGED <<life, oldClients, bg, msg, budget, lastEvent, served, writes, sync>>

\* networkFirst without its offline page.
NfAfterFallbackUnavailable(task, fallback) == Done(task, Fulfilled(NF_UNAVAILABLE))

\* What networkFirst returns after cache.match('/') (sw.js 197-204).
NfAfterFallback(task, fallback) ==
  IF fallback # Null THEN Done(task, Fulfilled(fallback))
  ELSE Done(task, Fulfilled(NF_UNAVAILABLE))

\* cache.match('/') resolves (sw.js 197-204).
NfFallbackMatched(t) ==
  /\ Ready
  /\ tasks[t].pc = "nf_fbmatch"
  /\ tasks' = [tasks EXCEPT
                 ![t] = NfAfterFallback(@, Match(store, tasks[t].h, Absolute("/")))]
  /\ UNCHANGED <<store, nextId, life, oldClients, bg, msg, budget, lastEvent, served, writes, sync>>

NetworkFirst(t) ==
  \/ NfFetched(t) \/ NfFetchFailed(t) \/ NfOpened(t)
  \/ NfMatched(t) \/ NfFallbackOpened(t) \/ NfFallbackMatched(t)

NetworkFirstFaults(t) == NfOpenFailed(t) \/ NfCatchFailed(t)

\* ------------------------------------------------ staleWhileRevalidate

\* The first .then of fetchPromise (sw.js 215-221): what it starts.
SwrStores(cacheName, h, url, networkResponse) ==
  IF networkResponse.ok
    THEN LET put == PutOp(h, url, networkResponse)
         IN { put, LimitAfter(put, cacheName, MAX_CDN_CACHE_SIZE) }
    ELSE {}

\* caches.open resolves (sw.js 210-211).
SwrOpened(t) ==
  /\ Ready
  /\ tasks[t].pc = "swr_open"
  /\ TaskOpened(t, tasks[t].cacheName, "swr_match")
  /\ UNCHANGED <<life, oldClients, bg, msg, budget, lastEvent, served, writes, sync>>

\* caches.open or cache.match rejects (sw.js 210-211): there is no try.
SwrStoreFailed(t) ==
  /\ Ready
  /\ tasks[t].pc \in {"swr_open", "swr_match"}
  /\ MayFail /\ Fail
  /\ tasks' = [tasks EXCEPT ![t] = Done(@, Rejected)]
  /\ UNCHANGED <<store, nextId, life, oldClients, bg, msg, lastEvent, served, writes, sync>>

\* staleWhileRevalidate returning fetchPromise whatever the cache had.
SwrReturnAwaitsFetch(task, cachedResponse) ==
  [task EXCEPT !.pc = "swr_fetch", !.fetches = @ + 1]

\* sw.js 228: cachedResponse || fetchPromise.
SwrReturn(task, cachedResponse) ==
  IF cachedResponse # Null
    THEN Done([task EXCEPT !.fetches = @ + 1], Fulfilled(cachedResponse))
    ELSE [task EXCEPT !.pc = "swr_fetch", !.fetches = @ + 1]

\* cache.match resolves (sw.js 211-228): the fetch is started; the cached
\* response is returned if there is one, else the task awaits fetchPromise.
SwrMatched(t) ==
  /\ Ready
  /\ tasks[t].pc = "swr_match"
  /\ LET cachedResponse == Match(store, tasks[t].h, tasks[t].req.url)
     IN /\ tasks' = [tasks EXCEPT
                       ![t] = SwrReturn([@ EXCEPT !.seen = cachedResponse], cachedResponse)]
        /\ bg' = IF cachedResponse # Null
                   THEN bg \cup {RevalidateOp(tasks[t].cacheName, tasks[t].h, tasks[t].req.url)}
                   ELSE bg
  /\ UNCHANGED <<store, nextId, life, oldClients, msg, budget, lastEvent, served, writes, sync>>

\* fetch resolves while the task awaits fetchPromise (sw.js 215-221, 228).
SwrFetched(t) ==
  /\ Ready
  /\ tasks[t].pc = "swr_fetch"
  /\ \E networkResponse \in Answers(tasks[t].req.url) :
       /\ bg' = bg \cup SwrStores(tasks[t].cacheName, tasks[t].h, tasks[t].req.url,
                                  networkResponse)
       /\ tasks' = [tasks EXCEPT
                      ![t] = Done([@ EXCEPT !.net = networkResponse],
                                  Fulfilled(networkResponse))]
  /\ UNCHANGED <<store, nextId, life, oldClients, msg, budget, lastEvent, served, writes, sync>>

\* fetch rejects while the task awaits fetchPromise (sw.js 222-228): the
\* .catch returns null.
SwrFetchFailed(t) ==
  /\ Ready
  /\ tasks[t].pc = "swr_fetch"
  /\ tasks' = [tasks EXCEPT ![t] = Done(@, Fulfilled(Null))]
  /\ UNCHANGED <<store, nextId, life, oldClients, bg, msg, budget, lastEvent, served, writes, sync>>

StaleWhileRevalidate(t) ==
  SwrOpened(t) \/ SwrMatched(t) \/ SwrFetched(t) \/ SwrFetchFailed(t)

\* ------------------------------------------------- promises not awaited

\* The background fetch of staleWhileRevalidate resolves (sw.js 215-221).
RevalidateFetched(o) ==
  /\ Ready
  /\ o.op = "revalidate"
  /\ \E networkResponse \in Answers(o.key) :
       bg' = (bg \ {o}) \cup SwrStores(o.name, o.h, o.key, networkResponse)
  /\ UNCHANGED <<store, nextId, life, oldClients, tasks, msg, budget, lastEvent, served, writes, sync>>

\* The background fetch rejects (sw.js 222-225).
RevalidateFailed(o) ==
  /\ Ready
  /\ o.op = "revalidate"
  /\ bg' = bg \ {o}
  /\ UNCHANGED <<store, nextId, life, oldClients, tasks, msg, budget, lastEvent, served, writes, sync>>

\* A cache.put settles: the entry is in the cache.
PutDone(o) ==
  /\ Ready
  /\ o.op = "put"
  /\ store' = Put(store, o.h, o.key, o.resp)
  /\ bg' = bg \ {o}
  /\ writes' = Append(writes, [h |-> o.h, key |-> o.key])
  /\ UNCHANGED <<nextId, life, oldClients, tasks, msg, budget, lastEvent, served, sync>>

\* A cache.put rejects: nothing is stored, nothing catches it.
PutFailed(o) ==
  /\ Ready
  /\ o.op = "put"
  /\ MayFail /\ Fail
  /\ bg' = bg \ {o}
  /\ UNCHANGED <<store, nextId, life, oldClients, tasks, msg, lastEvent, served, writes, sync>>

\* ------------------------------------------------------ limitCacheSize

\* The keys limitCacheSize deletes (sw.js 341-344).
Oldest(keys, maxSize) ==
  IF Len(keys) > maxSize
    THEN LET deleteCount == Len(keys) - maxSize
         IN Range(SubSeq(keys, 1, deleteCount))
    ELSE {}

\* caches.open resolves (sw.js 338-339): cache.keys() is called.
LimitOpened(o) ==
  /\ Ready
  /\ o.op = "limit" /\ o.pc = "open"
  /\ store' = Open(store, o.name, nextId)
  /\ nextId' = IF Has(store, o.name) THEN nextId ELSE nextId + 1
  /\ bg' = (bg \ {o}) \cup {[o EXCEPT !.pc = "keys", !.h = Handle(store', o.name)]}
  /\ UNCHANGED <<life, oldClients, tasks, msg, budget, lastEvent, served, writes, sync>>

\* cache.keys() resolves (sw.js 339-345): the deletes are started.
LimitKeys(o) ==
  /\ Ready
  /\ o.op = "limit" /\ o.pc = "keys"
  /\ LET doomed == Oldest(Keys(Entries(store, o.h)), o.max)
     IN bg' = (bg \ {o}) \cup
                (IF doomed = {} THEN {} ELSE {[o EXCEPT !.pc = "delete", !.pend = doomed]})
  /\ UNCHANGED <<store, nextId, life, oldClients, tasks, msg, budget, lastEvent, served, writes, sync>>

\* One cache.delete resolves (sw.js 344-346).
LimitDeleted(o) ==
  /\ Ready
  /\ o.op = "limit" /\ o.pc = "delete"
  /\ \E key \in o.pend :
       /\ store' = DeleteEntry(store, o.h, key)
       /\ bg' = (bg \ {o}) \cup
                  (IF o.pend = {key} THEN {} ELSE {[o EXCEPT !.pend = @ \ {key}]})
  /\ UNCHANGED <<nextId, life, oldClients, tasks, msg, budget, lastEvent, served, writes, sync>>

\* A Cache Storage call of limitCacheSize rejects (sw.js 348-350): the
\* error is logged; deletes already started go on.
LimitFailed(o) ==
  /\ Ready
  /\ o.op = "limit"
  /\ MayFail /\ Fail
  /\ IF o.pc = "delete"
       THEN \E key \in o.pend :
              bg' = (bg \ {o}) \cup
                      (IF o.pend = {key} THEN {} ELSE {[o EXCEPT !.pend = @ \ {key}]})
       ELSE bg' = bg \ {o}
  /\ UNCHANGED <<store, nextId, life, oldClients, tasks, msg, lastEvent, served, writes, sync>>

Background(o) ==
  \/ RevalidateFetched(o) \/ RevalidateFailed(o)
  \/ PutDone(o)
  \/ LimitOpened(o) \/ LimitKeys(o) \/ LimitDeleted(o)

\* ------------------------------------------------------------ messages

MessageTypes == {"SKIP_WAITING", "CLEAR_CACHE", "CACHE_URLS"}

\* The url lists a page sends with CACHE_URLS.
UrlLists == { <<UrlFirestore>>, <<UrlApiA, UrlPage>> }

\* The message listener (sw.js 315-329).
MessageEvent ==
  /\ Ready
  /\ life.phase \in {"installed", "activated"}
  /\ budget.messages > 0
  /\ msg.pc = "idle"
  /\ budget' = [budget EXCEPT !.messages = @ - 1]
  /\ \E type \in MessageTypes :
       /\ life' = IF type = "SKIP_WAITING" THEN [life EXCEPT !.skipWaiting = TRUE] ELSE life
       /\ \E urls \in (IF type = "CACHE_URLS" THEN UrlLists ELSE {<<>>}) :
            msg' = CASE type = "SKIP_WAITING" -> msg
                     [] type = "CLEAR_CACHE" -> [msg EXCEPT !.pc = "keys", !.type = type]
                     [] type = "CACHE_URLS" ->
                          [msg EXCEPT !.pc = "open", !.type = type, !.urls = urls]
  /\ UNCHANGED <<store, nextId, oldClients, tasks, bg, lastEvent, served, writes, sync>>

\* A caches.delete whose Promise.all already rejected.
DeleteOp(name) == MkOp("delete", "delete", name, 0, 0, "", Null, {})

\* clearAllCaches: caches.keys() resolves (sw.js 356-361) and a
\* caches.delete is started for every cache.
ClearKeys ==
  /\ Ready
  /\ msg.type = "CLEAR_CACHE" /\ msg.pc = "keys"
  /\ LET names == Range(CacheNames(store))
     IN msg' = IF names = {} THEN Handled(msg) ELSE [msg EXCEPT !.pc = "delete", !.pend = names]
  /\ UNCHANGED <<store, nextId, life, oldClients, tasks, bg, budget, lastEvent, served, writes, sync>>

\* clearAllCaches: one caches.delete resolves (sw.js 357-363).
ClearDeleted ==
  /\ Ready
  /\ msg.type = "CLEAR_CACHE" /\ msg.pc = "delete"
  /\ \E n \in msg.pend :
       /\ store' = DeleteCache(store, n, Held(tasks, bg, msg, life))
       /\ msg' = IF msg.pend = {n} THEN Handled(msg) ELSE [msg EXCEPT !.pend = @ \ {n}]
  /\ UNCHANGED <<nextId, life, oldClients, tasks, bg, budget, lastEvent, served, writes, sync>>

\* clearAllCaches: caches.keys() or a caches.delete rejects (sw.js 364-366);
\* the error is logged, the deletes already started go on.
ClearFailed ==
  /\ Ready
  /\ msg.type = "CLEAR_CACHE"
  /\ MayFail /\ Fail
  /\ msg' = Handled(msg)
  /\ IF msg.pc = "delete"
       THEN \E n \in msg.pend : bg' = bg \cup { DeleteOp(m) : m \in msg.pend \ {n} }
       ELSE bg' = bg
  /\ UNCHANGED <<store, nextId, life, oldClients, tasks, lastEvent, served, writes, sync>>

\* A caches.delete that outlived clearAllCaches resolves.
DeleteDone(o) ==
  /\ Ready
  /\ o.op = "delete"
  /\ store' = DeleteCache(store, o.name, Held(tasks, bg \ {o}, msg, life))
  /\ bg' = bg \ {o}
  /\ UNCHANGED <<nextId, life, oldClients, tasks, msg, budget, lastEvent, served, writes, sync>>

\* cacheUrls: caches.open(CACHE_DYNAMIC) resolves (sw.js 372-373).
CacheUrlsOpened ==
  /\ Ready
  /\ msg.type = "CACHE_URLS" /\ msg.pc = "open"
  /\ store' = Open(store, CACHE_DYNAMIC, nextId)
  /\ nextId' = IF Has(store, CACHE_DYNAMIC) THEN nextId ELSE nextId + 1
  /\ msg' = [msg EXCEPT !.pc = "addAll", !.h = Handle(store', CACHE_DYNAMIC)]
  /\ UNCHANGED <<life, oldClients, tasks, bg, budget, lastEvent, served, writes, sync>>

\* cacheUrls: cache.addAll fetched every url with an ok status and stored
\* them all (sw.js 373-374).
CacheUrlsAdded ==
  /\ Ready
  /\ msg.type = "CACHE_URLS" /\ msg.pc = "addAll"
  /\ \E v \in 1..MaxBody :
       LET resps == [i \in 1..Len(msg.urls) |->
                       MkResponse(TRUE, 200, <<"body", v>>, msg.urls[i])]
       IN store' = [i \in 1..Len(store) |->
                      IF store[i].id = msg.h
                        THEN [store[i] EXCEPT !.entries = PutAllEntries(@, msg.urls, resps)]
                        ELSE store[i]]
  /\ msg' = Handled(msg)
  /\ UNCHANGED <<nextId, life, oldClients, tasks, bg, budget, lastEvent, served, writes, sync>>

\* cacheUrls: cache.addAll rejects because a fetch failed or answered with
\* an error status; nothing is stored (sw.js 375-377).
CacheUrlsRejected ==
  /\ Ready
  /\ msg.type = "CACHE_URLS" /\ msg.pc = "addAll"
  /\ msg' = Handled(msg)
  /\ UNCHANGED <<store, nextId, life, oldClients, tasks, bg, budget, lastEvent, served, writes, sync>>

\* cacheUrls: caches.open or the write of cache.addAll rejects (sw.js 375-377).
CacheUrlsFailed ==
  /\ Ready
  /\ msg.type = "CACHE_URLS" /\ msg.pc \in {"open", "addAll"}
  /\ MayFail /\ Fail
  /\ msg' = Handled(msg)
  /\ UNCHANGED <<store, nextId, life, oldClients, tasks, bg, lastEvent, served, writes, sync>>

Messages ==
  \/ MessageEvent
  \/ ClearKeys \/ ClearDeleted
  \/ CacheUrlsOpened \/ CacheUrlsAdded \/ CacheUrlsRejected

\* ----------------------------------------------------- background sync

\* clients.forEach(client => client.postMessage(...)) for the sync event
\* number `event`, up to and without the client `stop` (sw.js 248-253).
PostMessages(inbox, event, success, stop) ==
  [c \in Clients |->
     IF c < stop THEN Append(inbox[c], [event |-> event, success |-> success])
     ELSE inbox[c]]

\* The sync listener (sw.js 234-240): syncPharmacyData is called for the tag
\* 'pharmacy-data-sync' only, and runs up to its first await.
SyncEvent ==
  /\ Ready
  /\ life.phase = "activated"
  /\ sync.pc = "idle" /\ sync.left > 0
  /\ \E tag \in SyncTags :
       sync' = [sync EXCEPT
                  !.tags = Append(@, tag),
                  !.left = @ - 1,
                  !.pc = IF tag = SYNC_TAG THEN "try" ELSE "idle",
                  !.settled = IF tag = SYNC_TAG THEN "pending" ELSE @]
  /\ UNCHANGED <<store, nextId, life, oldClients, tasks, bg, msg, budget, lastEvent, served, writes>>

\* clients.matchAll() resolves in the try block and every client is sent
\* success: true (sw.js 247-255).
SyncNotified ==
  /\ Ready
  /\ sync.pc = "try"
  /\ sync' = [sync EXCEPT
                !.pc = "idle", !.settled = "fulfilled",
                !.inbox = PostMessages(@, Len(sync.tags), TRUE, NumClients + 1)]
  /\ UNCHANGED <<store, nextId, life, oldClients, tasks, bg, msg, budget, lastEvent, served, writes>>

\* clients.matchAll() rejects in the try block (sw.js 247, 256).
SyncMatchAllFailed ==
  /\ Ready
  /\ sync.pc = "try"
  /\ MayFail /\ Fail
  /\ sync' = [sync EXCEPT !.pc = "catch"]
  /\ UNCHANGED <<store, nextId, life, oldClients, tasks, bg, msg, lastEvent, served, writes>>

\* A postMessage of the try block throws: the clients before it were sent
\* success: true, forEach stops and the catch block is entered
\* (sw.js 248-253, 256).
SyncPostFailed ==
  /\ Ready
  /\ sync.pc = "try"
  /\ MayFail /\ Fail
  /\ \E stop \in Clients :
       sync' = [sync EXCEPT
                  !.pc = "catch",
                  !.inbox = PostMessages(@, Len(sync.tags), TRUE, stop)]
  /\ UNCHANGED <<store, nextId, life, oldClients, tasks, bg, msg, lastEvent, served, writes>>

\* clients.matchAll() resolves in the catch block and every client is sent
\* success: false (sw.js 260-266).
SyncFailureNotified ==
  /\ Ready
  /\ sync.pc = "catch"
  /\ sync' = [sync EXCEPT
                !.pc = "idle", !.settled = "fulfilled",
                !.inbox = PostMessages(@, Len(sync.tags), FALSE, NumClients + 1)]
  /\ UNCHANGED <<store, nextId, life, oldClients, tasks, bg, msg, budget, lastEvent, served, writes>>

\* clients.matchAll() rejects or a postMessage throws in the catch block
\* (sw.js 260-266): syncPharmacyData rejects.
SyncCatchFailed ==
  /\ Ready
  /\ sync.pc = "catch"
  /\ MayFail /\ Fail
  /\ \E stop \in Clients :
       sync' = [sync EXCEPT
                  !.pc = "idle", !.settled = "rejected",
                  !.inbox = PostMessages(@, Len(sync.tags), FALSE, stop)]
  /\ UNCHANGED <<store, nextId, life, oldClients, tasks, bg, msg, lastEvent, served, writes>>

Sync == SyncEvent \/ SyncNotified \/ SyncFailureNotified

SyncFaults == SyncMatchAllFailed \/ SyncPostFailed \/ SyncCatchFailed

\* ------------------------------------------------------ specifications

\* The worker's steps when Cache Storage never fails and no page sends a
\* message.
Worker ==
  \/ Lifecycle
  \/ FetchEvent
  \/ \E t \in Slots : CacheFirst(t) \/ NetworkFirst(t) \/ StaleWhileRevalidate(t)
  \/ \E o \in bg : Background(o)

\* The steps in which a Cache Storage operation rejects.
Faults ==
  \/ LifecycleFaults
  \/ \E t \in Slots : CacheFirstFaults(t) \/ NetworkFirstFaults(t) \/ SwrStoreFailed(t)
  \/ \E o \in bg : PutFailed(o) \/ LimitFailed(o) \/ DeleteDone(o)
  \/ ClearFailed \/ CacheUrlsFailed

Environment == PassThrough \/ \E t \in Slots : Deliver(t)

Init == InitWith(MaxFetchEvents, 0, 0)

Next == Environment \/ Worker

\* Requests only.
Spec == Init /\ [][Next]_vars

InitMsg == InitWith(MsgFetchEvents, MaxMessages, 0)

NextMsg == Environment \/ Worker \/ Messages

\* Requests and client messages.
SpecMsg == InitMsg /\ [][NextMsg]_vars

InitFaulty == InitWith(MsgFetchEvents, MaxMessages, MaxFaults)

NextFaulty == Environment \/ Worker \/ Messages \/ Faults

\* Requests and client messages over a Cache Storage that may fail.
SpecFaulty == InitFaulty /\ [][NextFaulty]_vars

InitSync == InitAll(0, 0, MaxSyncFaults, MaxSyncs)

NextSync == Lifecycle \/ Sync \/ SyncFaults

\* Install, activation and sync events over a clients API that may fail.
SpecSync == InitSync /\ [][NextSync]_vars

\* ---------------------------------------------------------- properties

IsDone(t) == tasks[t].pc = "done"
Fn(t) == Strategy(tasks[t].req).fn
Url(t) == tasks[t].req.url

\* A request the router must leave alone: the method is not GET, or the
\* host matches an entry of the excluded-host list, or the scheme is
\* neither http nor https.
Ineligible(request) ==
  LET url == ParseUrl(request.url) IN
  \/ request.method # "GET"
  \/ \E i \in 1..Len(FIREBASE_HOSTS) : Includes(url.hostname, FIREBASE_HOSTS[i])
  \/ url.protocol \notin {"http:", "https:"}

\* C1: a fetch event for an ineligible request is not answered and leaves
\* Cache Storage and every promise of the worker as they were; an event that
\* is answered is for an eligible request.
C1_IneligibleNotIntercepted ==
  [][budget'.events < budget.events =>
       \/ /\ lastEvent' # NoRequest
          /\ Ineligible(lastEvent')
          /\ UNCHANGED <<store, nextId, tasks, bg, msg, writes, sync>>
       \/ /\ lastEvent' = NoRequest
          /\ \E t \in Slots : /\ tasks[t].pc = "idle"
                              /\ tasks'[t].pc # "idle"
                              /\ ~Ineligible(tasks'[t].req)]_vars

\* C1 witness: an ineligible request was left to the browser although
\* Cache Storage holds an entry for its URL.
C1_Witness == lastEvent # NoRequest /\ MatchAny(store, lastEvent.url) # Null

C3_CacheFirstHit ==
  \A t \in Slots :
    (IsDone(t) /\ Fn(t) = "cacheFirst")
      => IF tasks[t].seen # Null
           THEN tasks[t].result = Fulfilled(tasks[t].seen) /\ tasks[t].fetches = 0
           ELSE tasks[t].fetches <= 1

\* C3 witness: a cacheFirst call returned on a hit.
C3_Witness ==
  \E t \in Slots :
    IsDone(t) /\ Fn(t) = "cacheFirst" /\ tasks[t].seen # Null /\ tasks[t].fetches = 0

\* C4: staleWhileRevalidate returns the entry its lookup found, and it
\* returns while its background fetch is still pending.
C4_ServeStale ==
  \A t \in Slots :
    (IsDone(t) /\ Fn(t) = "staleWhileRevalidate" /\ tasks[t].seen # Null)
      => /\ tasks[t].result = Fulfilled(tasks[t].seen)
         /\ \E o \in bg : o.op = "revalidate" /\ o.key = Url(t)

\* C4 witness: a staleWhileRevalidate call returned on a hit.
C4_Witness ==
  \E t \in Slots : IsDone(t) /\ Fn(t) = "staleWhileRevalidate" /\ tasks[t].seen # Null

\* No promise of the worker is pending.
Quiescent ==
  /\ \A t \in Slots : tasks[t].pc = "idle"
  /\ bg = {}
  /\ msg.pc = "idle"
  /\ life.pend = {}

\* The URLs put into the cache behind h, oldest put first.
WrittenKeys(h) ==
  LET ws == SelectSeq(writes, LAMBDA w : w.h = h)
  IN [i \in 1..Len(ws) |-> ws[i].key]

Distinct(seq) == \A i, j \in 1..Len(seq) : i # j => seq[i] # seq[j]

MaxSize(cacheName) ==
  IF cacheName = CACHE_DYNAMIC THEN MAX_DYNAMIC_CACHE_SIZE ELSE MAX_CDN_CACHE_SIZE

\* C5 as stated: once every task has finished, a bounded cache that took
\* M > N puts of distinct URLs holds the last N of them.
C5_FifoEviction ==
  Quiescent =>
    \A i \in 1..Len(store) :
      (store[i].listed /\ store[i].name \in {CACHE_DYNAMIC, CACHE_CDN})
        => LET w == WrittenKeys(store[i].id)
               n == MaxSize(store[i].name)
           IN (Distinct(w) /\ Len(w) > n)
                => Keys(store[i].entries) = SubSeq(w, Len(w) - n + 1, Len(w))

\* C6 as stated: when networkFirst returns an ok network response, the
\* dynamic cache holds its copy.
C6_StoredBeforeReturn ==
  \A t \in Slots :
    (/\ IsDone(t) /\ Fn(t) = "networkFirst"
     /\ tasks[t].net # Null /\ tasks[t].net.ok
     /\ tasks[t].result = Fulfilled(tasks[t].net))
      => /\ Has(store, CACHE_DYNAMIC)
         /\ Match(store, Handle(store, CACHE_DYNAMIC), Url(t)) = tasks[t].net

\* C7 as stated: the install handler's promise is fulfilled only with every
\* static asset in the static cache.
C7_InstallAllOrNothing ==
  [][(life.phase = "installing" /\ life'.phase = "installed") =>
       /\ Has(store', CACHE_STATIC)
       /\ \A i \in 1..Len(STATIC_ASSETS) :
            Match(store', Handle(store', CACHE_STATIC), Absolute(STATIC_ASSETS[i])) # Null]_vars

\* C8: once the activate handler's promise is fulfilled, no listed cache of
\* the namespace carries another version tag than the current one.
C8_NoStalePartition ==
  (life.phase = "activated" /\ life.settled = "fulfilled")
    => \A i \in 1..Len(store) :
         (store[i].listed /\ store[i].name[1] = CACHE_VERSION[1])
           => store[i].name[2] = CACHE_VERSION[2]

\* C8 witness: the worker was activated over the caches of the previous
\* version and has created its dynamic cache since.
C8_Witness ==
  /\ life.phase = "activated" /\ life.settled = "fulfilled"
  /\ Has(store, FOREIGN_CACHE)
  /\ Has(store, CACHE_DYNAMIC)

\* C9 as stated: every respondWith() promise is fulfilled with a response.
C9_AlwaysResponse ==
  \A t \in Slots :
    IsDone(t) => tasks[t].result.state = "fulfilled" /\ IsResponse(tasks[t].result.value)

\* C10: every entry of every cache is a response with an ok status.
C10_OnlyOkStored ==
  \A i \in 1..Len(store) :
    \A j \in 1..Len(store[i].entries) :
      /\ store[i].entries[j].resp.ok
      /\ store[i].entries[j].resp.status = 200

\* C10 witness: a strategy got an error status from the network while the
\* caches of the current version hold entries.
C10_Witness ==
  /\ \E t \in Slots : IsDone(t) /\ tasks[t].net # Null /\ ~tasks[t].net.ok
  /\ \E i \in 1..Len(store) :
       store[i].listed /\ store[i].name[2] = CACHE_VERSION[2] /\ store[i].entries # <<>>

\* The request of t was the first to arrive after clearAllCaches had deleted
\* every cache, and no event or message has arrived since.
NextAfterClear(t) ==
  tasks[t].cleared = [events |-> budget.events, messages |-> budget.messages]

\* C11: the first static-asset request after clearAllCaches deleted every
\* cache misses and fetches exactly once; when the network answers ok it
\* returns with the static cache created anew, empty, and the put of that
\* response into it started; and when a put into the empty static cache
\* settles, the cache holds exactly that entry.
C11_RepopulatedAfterClear ==
  /\ [](\A t \in Slots :
          (IsDone(t) /\ Fn(t) = "cacheFirst" /\ NextAfterClear(t))
            => /\ tasks[t].seen = Null
               /\ tasks[t].fetches = 1
               /\ (tasks[t].net # Null /\ tasks[t].net.ok)
                    => /\ Has(store, CACHE_STATIC)
                       /\ Entries(store, Handle(store, CACHE_STATIC)) = <<>>
                       /\ PutOp(Handle(store, CACHE_STATIC), Url(t), tasks[t].net) \in bg)
  /\ [][\A p \in bg :
          (/\ p.op = "put" /\ p \notin bg' /\ writes' # writes
           /\ Has(store, CACHE_STATIC)
           /\ p.h = Handle(store, CACHE_STATIC)
           /\ Entries(store, p.h) = <<>>)
            => /\ Has(store', CACHE_STATIC)
               /\ Entries(store', Handle(store', CACHE_STATIC)) = <<MkEntry(p.key, p.resp)>>]_vars

\* C11 witness: the request arrived after the clear, the network answered
\* ok and the response is on its way into the new static cache.
C11_Witness ==
  \E t \in Slots :
    /\ IsDone(t) /\ Fn(t) = "cacheFirst" /\ NextAfterClear(t)
    /\ tasks[t].net # Null /\ tasks[t].net.ok
    /\ tasks[t].result = Fulfilled(tasks[t].net)

\* The root document held by the static cache, if any.
RootDocument ==
  IF Has(store, CACHE_STATIC)
    THEN Match(store, Handle(store, CACHE_STATIC), Absolute("/"))
    ELSE Null

\* C12: networkFirst returns the network's response, whatever its status,
\* when fetch resolves; when fetch rejects it returns the entry its lookup
\* found, else the root document of the static cache if the request accepts
\* text/html and the static cache has it, else the synthetic 503.
C12_FallbackOrder ==
  \A t \in Slots :
    (IsDone(t) /\ Fn(t) = "networkFirst")
      => tasks[t].result =
           Fulfilled(IF tasks[t].net # Null THEN tasks[t].net
                     ELSE IF tasks[t].seen # Null THEN tasks[t].seen
                     ELSE IF /\ Includes(tasks[t].req.accept, "text/html")
                             /\ RootDocument # Null
                       THEN RootDocument
                     ELSE NF_UNAVAILABLE)

\* C12 witness: fetch rejected, no cache had the page, and the root
\* document was returned in its place.
C12_Witness ==
  \E t \in Slots :
    /\ IsDone(t) /\ Fn(t) = "networkFirst"
    /\ tasks[t].net = Null /\ tasks[t].seen = Null
    /\ RootDocument # Null
    /\ Url(t) # Absolute("/")
    /\ tasks[t].result = Fulfilled(RootDocument)

\* C13 as stated: when an eviction pass lists the keys of its cache, the
\* put it was called after has settled.
C13_EvictionSeesWrite ==
  [][\A o \in bg :
       (o.op = "limit" /\ o.pc = "keys" /\ o \notin bg')
         => ~\E p \in bg : p.op = "put" /\ p.h = o.h /\ p.key = o.key /\ p.resp = o.resp]_vars

\* C14 as stated: an eviction pass does not delete the entry written by the
\* put it was called after.
C14_KeepsOwnWrite ==
  [][\A o \in bg :
       (/\ o.op = "limit" /\ o.pc = "delete" /\ o \notin bg'
        /\ ~\E p \in bg : p.op = "put" /\ p.h = o.h /\ p.key = o.key /\ p.resp = o.resp
        /\ Match(store, o.h, o.key) = o.resp)
         => Match(store', o.h, o.key) = o.resp]_vars

\* C15 as stated: once a CACHE_URLS message is handled and no promise is
\* pending, the dynamic cache holds at most MAX_DYNAMIC_CACHE_SIZE entries.
C15_PrewarmBounded ==
  (Quiescent /\ msg.type = "CACHE_URLS" /\ Has(store, CACHE_DYNAMIC))
    => Len(Entries(store, Handle(store, CACHE_DYNAMIC))) <= MAX_DYNAMIC_CACHE_SIZE

\* C16 as stated: no strategy rejects when a Cache Storage call fails, and
\* networkFirst returns the ok response it fetched whether or not the
\* dynamic cache could be opened and written.
C16_StoreFailureTolerated ==
  \A t \in Slots :
    IsDone(t)
      => /\ tasks[t].result.state = "fulfilled"
         /\ (Fn(t) = "networkFirst" /\ tasks[t].net # Null /\ tasks[t].net.ok)
              => tasks[t].result = Fulfilled(tasks[t].net)

\* C17 as stated: when a caches.delete of the activate handler rejected,
\* then once no delete is pending every other old cache is gone, the
\* handler's promise is fulfilled and the worker has claimed the clients.
C17_DeleteFailureTolerated ==
  (life.phase = "activated" /\ life.pend = {} /\ life.failed # {})
    => /\ \A n \in Range(CacheNames(store)) : IsOldCache(n) => n \in life.failed
       /\ life.settled = "fulfilled"
       /\ life.claimed

\* The caches of a previous version that Cache Storage lists.
OldCaches(st) == { n \in Range(CacheNames(st)) : IsOldCache(n) }

\* C18 as stated: a worker whose static cache was not pre-populated is never
\* activated, and no cache of the previous version is deleted.
C18_FailedInstallNotActivated ==
  [][~life'.prepop =>
       /\ life'.phase \notin {"activating", "activated"}
       /\ OldCaches(store) \subseteq OldCaches(store')]_vars

\* The strategy and the cache of a request by its class: a host of the CDN
\* list has staleWhileRevalidate and the CDN cache, a path of the static
\* list has cacheFirst and the static cache, the rest has networkFirst and
\* the dynamic cache.
ClassOf(url) ==
  LET u == ParseUrl(url) IN
  IF \/ \E i \in 1..Len(CDN_RESOURCES) : Includes(url, CDN_RESOURCES[i])
     \/ Includes(u.hostname, "cdn")
     \/ Includes(u.hostname, "unpkg")
     \/ Includes(u.hostname, "jsdelivr")
    THEN [fn |-> "staleWhileRevalidate", cacheName |-> CACHE_CDN]
  ELSE IF \E i \in 1..Len(STATIC_ASSETS) : u.pathname = STATIC_ASSETS[i]
    THEN [fn |-> "cacheFirst", cacheName |-> CACHE_STATIC]
  ELSE [fn |-> "networkFirst", cacheName |-> CACHE_DYNAMIC]

\* C19 as stated: a request being handled has the strategy and the cache
\* of its class, and every entry of a cache of the current version is in
\* the cache of its URL's class.
C19_OneStrategyPerClass ==
  /\ \A t \in Slots :
       tasks[t].pc # "idle"
         => /\ Strategy(tasks[t].req) = ClassOf(Url(t))
            /\ tasks[t].cacheName = ClassOf(Url(t)).cacheName
  /\ \A i \in 1..Len(store) :
       store[i].name \in {CACHE_STATIC, CACHE_DYNAMIC, CACHE_CDN}
         => \A j \in 1..Len(store[i].entries) :
              store[i].name = ClassOf(store[i].entries[j].key).cacheName

\* The messages a page received for the sync event number `event`.
Received(c, event) == SelectSeq(sync.inbox[c], LAMBDA m : m.event = event)

\* C20 as stated: once syncPharmacyData has settled, every client has
\* received exactly one message for each sync event tagged
\* 'pharmacy-data-sync' and none for an event with another tag.
C20_SyncFanOut ==
  sync.pc = "idle"
    => \A event \in 1..Len(sync.tags) :
         \A c \in Clients :
           Len(Received(c, event)) = IF sync.tags[event] = SYNC_TAG THEN 1 ELSE 0

====
